---- MODULE Spec2Model ----
(***************************************************************************)
(* Model of the snowblower advisor (src/snowblower_advisor.py) and of the  *)
(* Discord bot built on it (src/discord_bot.py).                           *)
(*                                                                         *)
(* Units.  Python floats are modelled as exact fixed-point integers:       *)
(*   snowfall and accumulation   hundredths of an inch  (2.0 in  = 200)    *)
(*   wind speed                  tenths of a mph        (25 mph  = 250)    *)
(*   bearings                    half degrees           (22.5 deg = 45)    *)
(* An optional value is None (Python None) or Some(v).                     *)
(*                                                                         *)
(* The specifications share the variables:                                 *)
(*   Spec              the running bot: the periodic check_alerts task,    *)
(*                     the slash-command handlers and the environment;     *)
(*   FairSpec          Spec with the fairness of the bot's scheduling;     *)
(*   RestartSpec       Spec started on a file an earlier run has written;  *)
(*   AdvisorSpec       calls of the pure functions of SnowblowerAdvisor    *)
(*                     and of the two renderers on bounded inputs.         *)
(***************************************************************************)
EXTENDS Integers, Sequences, FiniteSets, TLC

VARIABLES
    exit_cause,        \* "none" while the process runs, else the caller whose SystemExit ended it
    alerts,            \* bot.alerts: insertion-ordered dict, a sequence of [key, subscribed_at]
    store,             \* contents of alerts.json, same shape
    disk_ok,           \* whether open() on alerts.json succeeds in this run
    last_alert_state,  \* bot.last_alert_state: dict state_key -> bool (a partial function)
    reachable,         \* channels bot.get_channel still resolves
    pc,                \* position of the check_alerts task: idle, loop, fetch_user, send, done
    snapshot,          \* list(self.alerts.items()) of the running tick, as a sequence of keys
    idx,               \* position of the for loop in snapshot (1-based)
    should_alert,      \* should_alert of the last tick that fetched the weather
    response,          \* what the last /snowblower interaction was answered with
    notified,          \* history: notifications sent to a key in the current episode (capped)
    steady,            \* history: keys subscribed without a break since the current episode began
    outcome,           \* history: what the current tick did with each key it has evaluated
    call               \* AdvisorSpec: the last call of a pure function, [fn, arg, ret]

vars == <<exit_cause, alerts, store, disk_ok, last_alert_state, reachable, pc,
          snapshot, idx, should_alert, response, notified, steady, outcome, call>>

botvars == <<exit_cause, alerts, store, disk_ok, last_alert_state, reachable, pc,
             snapshot, idx, should_alert, response, notified, steady, outcome>>

(***************************************************************************)
(* Bounds of the model                                                     *)
(***************************************************************************)
MaxTime == 1
MaxNotified == 2
MaxLen == 3
MaxTurn == 2
MaxHours == 26

\* two channels and one user: two subscriptions, so one can change while the other is dispatched
Channels == {1, 2}

Users == {1}

Times == 1..MaxTime

\* Python None, and a value that is present
None == <<>>

Some(v) == <<v>>

Val(o) == o[1]

(***************************************************************************)
(* Configuration (module-level constants of discord_bot.py)                *)
(***************************************************************************)
ACCUMULATION_THRESHOLD == 200
MAX_WIND_SPEED == 250

\* f"{channel_id}_{user_id}": an injective formatting of the pair of integers
AlertKey(channel_id, user_id) == <<channel_id, user_id>>

Keys == {AlertKey(c, u) : c \in Channels, u \in Users}

ChannelOf(k) == k[1]

(***************************************************************************)
(* dict helpers                                                            *)
(***************************************************************************)
KeysOf(d) == {d[i].key : i \in DOMAIN d}

DictDel(d, k) == SelectSeq(d, LAMBDA r : r.key # k)

DictAdd(d, k, t) == Append(d, [key |-> k, subscribed_at |-> t])

ListKeys(d) == [i \in DOMAIN d |-> d[i].key]

\* every value an insertion-ordered dict of subscriptions can have
AllAlerts ==
    {d \in UNION {[1..n -> [key : Keys, subscribed_at : Times]] : n \in 0..Cardinality(Keys)} :
        \A i, j \in DOMAIN d : i # j => d[i].key # d[j].key}

\* self.last_alert_state.get(state_key, False)
LatchGet(l, k) == IF k \in DOMAIN l THEN l[k] ELSE FALSE

LatchSet(l, k, v) == [x \in (DOMAIN l) \cup {k} |-> IF x = k THEN v ELSE l[x]]

LatchDel(l, k) == [x \in (DOMAIN l) \ {k} |-> l[x]]

EmptyLatch == [x \in {} |-> FALSE]

\* load_alerts(): the file's contents, {} when it cannot be read
load_alerts(file, ok) == IF ok THEN file ELSE <<>>

\* save_alerts(alerts): the new contents of the file; a failed write is logged and ignored
save_alerts(d, file, ok) == IF ok THEN d ELSE file


(***************************************************************************)
(* SnowblowerAdvisor: the pure computations (src/snowblower_advisor.py)    *)
(***************************************************************************)
Max(a, b) == IF a >= b THEN a ELSE b

Min(a, b) == IF a <= b THEN a ELSE b

\* Python int(a / b) for b > 0: the quotient truncated toward zero
TruncDiv(a, b) == IF a >= 0 THEN a \div b ELSE -((-a) \div b)

\* Python lst[lo:hi] with 0 <= lo (0-based, hi exclusive, clipped to the list)
Slice(lst, lo, hi) == SubSeq(lst, lo + 1, Min(hi, Len(lst)))

\* sum(s for s in samples if s is not None)
RECURSIVE SumSamples(_)
SumSamples(samples) ==
    IF samples = <<>> THEN 0
    ELSE LET last == samples[Len(samples)]
         IN SumSamples(SubSeq(samples, 1, Len(samples) - 1))
                + (IF last = None THEN 0 ELSE Val(last))

\* [w for w in samples if w is not None]
NotNone(samples) == SelectSeq(samples, LAMBDA x : x # None)

\* a bearing is a rational number of half degrees, <<numerator, denominator>>
Deg(halfdeg) == <<halfdeg, 1>>

directions == <<"N", "NE", "E", "SE", "S", "SW", "W", "NW">>

\* directions[int((degrees + 22.5) / 45) % 8]
get_direction_from_degrees(degrees) ==
    LET num == degrees[1]
        den == degrees[2]
    IN directions[(TruncDiv(num + 45 * den, 90 * den) % 8) + 1]

\* (wind_from, blow_to), blow_to from (degrees + 180) % 360
get_recommended_blow_direction(wind_direction_degrees) ==
    LET num == wind_direction_degrees[1]
        den == wind_direction_degrees[2]
        blow_to_degrees == <<(num + 360 * den) % (720 * den), den>>
    IN [wind_from |-> get_direction_from_degrees(wind_direction_degrees),
        blow_to |-> get_direction_from_degrees(blow_to_degrees)]

\* a slip: a total equal to the threshold does not trigger
should_snowblow_strict(accumulation_threshold, hourly_snowfall) ==
    LET total_accumulation == SumSamples(hourly_snowfall)
    IN [should_blow |-> total_accumulation > accumulation_threshold,
        total_accumulation |-> total_accumulation]

\* (should_blow, total_accumulation); current_snowfall is not used by the code
should_snowblow(accumulation_threshold, hourly_snowfall) ==
    LET total_accumulation == SumSamples(hourly_snowfall)
    IN [should_blow |-> total_accumulation >= accumulation_threshold,
        total_accumulation |-> total_accumulation]

\* a slip: the configured band is tested after the literal 35 mph band
is_wind_safe_max_after_35(max_wind_speed, wind_speed) ==
    IF wind_speed <= 100 THEN [safe |-> TRUE, condition |-> "Excellent"]
    ELSE IF wind_speed <= 150 THEN [safe |-> TRUE, condition |-> "Good"]
    ELSE IF wind_speed <= 350 THEN [safe |-> FALSE, condition |-> "Too windy"]
    ELSE IF wind_speed <= max_wind_speed THEN [safe |-> TRUE, condition |-> "Fair"]
    ELSE [safe |-> FALSE, condition |-> "Dangerous"]

\* (is_safe, condition_description)
is_wind_safe_for_snowblowing(max_wind_speed, wind_speed) ==
    IF wind_speed <= 100 THEN [safe |-> TRUE, condition |-> "Excellent"]
    ELSE IF wind_speed <= 150 THEN [safe |-> TRUE, condition |-> "Good"]
    ELSE IF wind_speed <= max_wind_speed THEN [safe |-> TRUE, condition |-> "Fair"]
    ELSE IF wind_speed <= 350 THEN [safe |-> FALSE, condition |-> "Too windy"]
    ELSE [safe |-> FALSE, condition |-> "Dangerous"]

PAST_HOURS == 24
FORECAST_HOURS == 24

\* the scan of get_forecast_analysis: the last index (0-based) of the leading run of
\* timestamps <= now (the loop breaks at the first later timestamp), 0 when there is none
RECURSIVE ScanBreak(_, _, _, _)
ScanBreak(times, now, i, current_index) ==
    IF i > Len(times) THEN current_index
    ELSE IF times[i] <= now THEN ScanBreak(times, now, i + 1, i - 1)
    ELSE current_index

\* the scan of get_advice and get_advisor_data: no break, the last index with timestamp <= now
RECURSIVE ScanAll(_, _, _, _)
ScanAll(times, now, i, current_index) ==
    IF i > Len(times) THEN current_index
    ELSE ScanAll(times, now, i + 1, IF times[i] <= now THEN i - 1 ELSE current_index)

\* max((w for w in winds if w is not None), default=0)
RECURSIVE PeakWind(_)
PeakWind(winds) ==
    IF winds = <<>> THEN 0
    ELSE LET rest == SubSeq(winds, 2, Len(winds))
         IN IF winds[1] = None THEN PeakWind(rest)
            ELSE IF NotNone(rest) = <<>> THEN Val(winds[1])
            ELSE Max(Val(winds[1]), PeakWind(rest))

\* sum(non-missing) / len(non-missing) if the slice is non-empty else 0; a non-empty
\* slice without a non-missing bearing divides by zero
AvgWindDir(dirs) ==
    IF dirs = <<>> THEN [raised |-> "none", value |-> Deg(0)]
    ELSE IF NotNone(dirs) = <<>> THEN [raised |-> "ZeroDivisionError", value |-> Deg(0)]
    ELSE [raised |-> "none", value |-> <<SumSamples(dirs), Len(NotNone(dirs))>>]

\* a slip: the index is overwritten at every later sample (no "is None" test)
RECURSIVE HoursUntil_last(_, _, _, _, _)
HoursUntil_last(snow, threshold, i, cumulative, hours_until_threshold) ==
    IF i > Len(snow) THEN hours_until_threshold
    ELSE IF snow[i] = None
         THEN HoursUntil_last(snow, threshold, i + 1, cumulative, hours_until_threshold)
    ELSE LET c == cumulative + Val(snow[i])
         IN HoursUntil_last(snow, threshold, i + 1, c,
                            IF c >= threshold THEN Some(i - 1) ELSE hours_until_threshold)

\* a slip: the running sum must exceed the threshold (> for >=)
RECURSIVE HoursUntil_strict(_, _, _, _, _)
HoursUntil_strict(snow, threshold, i, cumulative, hours_until_threshold) ==
    IF i > Len(snow) THEN hours_until_threshold
    ELSE IF snow[i] = None
         THEN HoursUntil_strict(snow, threshold, i + 1, cumulative, hours_until_threshold)
    ELSE LET c == cumulative + Val(snow[i])
         IN HoursUntil_strict(snow, threshold, i + 1, c,
                              IF c > threshold /\ hours_until_threshold = None
                              THEN Some(i - 1) ELSE hours_until_threshold)

\* the loop over the forecast slice: the first index (0-based) at which the running sum of
\* the non-missing samples is >= the threshold, None when there is none
RECURSIVE HoursUntil(_, _, _, _, _)
HoursUntil(snow, threshold, i, cumulative, hours_until_threshold) ==
    IF i > Len(snow) THEN hours_until_threshold
    ELSE IF snow[i] = None
         THEN HoursUntil(snow, threshold, i + 1, cumulative, hours_until_threshold)
    ELSE LET c == cumulative + Val(snow[i])
         IN HoursUntil(snow, threshold, i + 1, c,
                       IF c >= threshold /\ hours_until_threshold = None
                       THEN Some(i - 1) ELSE hours_until_threshold)

\* hourly: [time, snowfall, wind_speed_10m, wind_direction_10m]; raises when the average
\* bearing divides by zero
get_forecast_analysis(accumulation_threshold, hourly, now) ==
    LET current_index == ScanBreak(hourly.time, now, 1, 0)
        next_24_hours_snow == Slice(hourly.snowfall, current_index, current_index + FORECAST_HOURS)
        next_24_hours_wind == Slice(hourly.wind_speed_10m, current_index, current_index + FORECAST_HOURS)
        next_24_hours_wind_dir == Slice(hourly.wind_direction_10m, current_index, current_index + FORECAST_HOURS)
        forecast_accumulation == SumSamples(next_24_hours_snow)
        avg_wind_dir == AvgWindDir(next_24_hours_wind_dir)
    IN IF avg_wind_dir.raised # "none" THEN [raised |-> avg_wind_dir.raised]
       ELSE [raised |-> "none",
             forecast_accumulation |-> forecast_accumulation,
             peak_wind |-> PeakWind(next_24_hours_wind),
             avg_wind_direction |-> avg_wind_dir.value,
             hours_until_threshold |-> HoursUntil(next_24_hours_snow, accumulation_threshold, 1, 0, None),
             will_exceed_threshold |-> forecast_accumulation >= accumulation_threshold]

\* hourly_snowfall[max(0, current_index - 24) : current_index + 1]
PastWindow(hourly, now) ==
    LET current_index == ScanAll(hourly.time, now, 1, 0)
        past_24_start == Max(0, current_index - PAST_HOURS)
    IN Slice(hourly.snowfall, past_24_start, current_index + 1)

\* weather: [current : [wind_speed_10m, wind_direction_10m], hourly, now]
get_advisor_data(weather) ==
    LET current == weather.current
        hourly == weather.hourly
        blow == should_snowblow(ACCUMULATION_THRESHOLD, PastWindow(hourly, weather.now))
        dir == get_recommended_blow_direction(current.wind_direction_10m)
        wind == is_wind_safe_for_snowblowing(MAX_WIND_SPEED, current.wind_speed_10m)
        forecast == get_forecast_analysis(ACCUMULATION_THRESHOLD, hourly, weather.now)
    IN IF forecast.raised # "none" THEN [raised |-> forecast.raised]
       ELSE LET fdir == get_recommended_blow_direction(forecast.avg_wind_direction)
                fwind == is_wind_safe_for_snowblowing(MAX_WIND_SPEED, forecast.peak_wind)
            IN [raised |-> "none",
                wind_speed |-> current.wind_speed_10m,
                wind_from |-> dir.wind_from,
                blow_to |-> dir.blow_to,
                wind_safe |-> wind.safe,
                wind_condition |-> wind.condition,
                past_accumulation |-> blow.total_accumulation,
                should_blow |-> blow.should_blow,
                forecast_accumulation |-> forecast.forecast_accumulation,
                peak_wind |-> forecast.peak_wind,
                forecast_wind_from |-> fdir.wind_from,
                forecast_blow_to |-> fdir.blow_to,
                forecast_wind_safe |-> fwind.safe,
                forecast_will_exceed |-> forecast.will_exceed_threshold,
                hours_until_threshold |-> forecast.hours_until_threshold]


(***************************************************************************)
(* The two renderers, as the markers of what they put on the screen        *)
(***************************************************************************)
\* a slip: the test is negated
Truthy_negated(o) == ~(o # None /\ Val(o) # 0)

\* Python truthiness of an optional integer: None and 0 are false
Truthy(o) == o # None /\ Val(o) # 0

\* a slip: the forecast is tested before the accumulation
embed_title_forecast_first(advisor_data) ==
    LET d == advisor_data
    IN IF d.forecast_will_exceed THEN "FORECAST ALERT"
       ELSE IF d.should_blow /\ d.wind_safe THEN "TIME TO SNOW BLOW NOW!"
       ELSE IF d.should_blow /\ ~d.wind_safe THEN "WAIT - CONDITIONS NOT IDEAL"
       ELSE "NO NEED TO SNOW BLOW NOW"

\* format_snowblower_advice, lines 159-174: the title of the embed
embed_title(advisor_data) ==
    LET d == advisor_data
    IN IF d.should_blow /\ d.wind_safe THEN "TIME TO SNOW BLOW NOW!"
       ELSE IF d.should_blow /\ ~d.wind_safe THEN "WAIT - CONDITIONS NOT IDEAL"
       ELSE IF d.forecast_will_exceed THEN "FORECAST ALERT"
       ELSE "NO NEED TO SNOW BLOW NOW"

\* format_snowblower_advice(advisor_data): the embed's title, the last line of its
\* forecast field and the parts of its recommendation field
format_snowblower_advice(advisor_data) ==
    LET d == advisor_data
        title == embed_title(advisor_data)
        forecast == IF d.forecast_will_exceed
                    THEN IF Truthy(d.hours_until_threshold)
                         THEN <<"Threshold in ~hrs", d.hours_until_threshold>>
                         ELSE <<"Will exceed threshold", None>>
                    ELSE <<"Stays below threshold", None>>
        recommendation ==
            IF d.should_blow /\ d.wind_safe
            THEN {<<"Blow Direction", d.blow_to>>}
                     \cup (IF d.forecast_will_exceed THEN {<<"may need to blow again", None>>} ELSE {})
            ELSE IF d.should_blow /\ ~d.wind_safe
            THEN {<<"Wait for winds", None>>, <<"If urgent, blow toward", d.blow_to>>}
            ELSE {<<"Need more to trigger", None>>}
                     \cup (IF d.forecast_will_exceed
                           THEN {<<"Forecast Alert", None>>}
                                    \cup (IF Truthy(d.hours_until_threshold)
                                          THEN {<<"Likely needed in ~hours", d.hours_until_threshold>>}
                                          ELSE {})
                                    \cup (IF ~d.forecast_wind_safe
                                          THEN {<<"Peak winds may be too strong", None>>}
                                          ELSE {<<"Forecast conditions favorable", d.forecast_blow_to>>})
                           ELSE {})
    IN [title |-> title, forecast |-> forecast, recommendation |-> recommendation]

\* get_advice(): what it prints from the computed values: the headline of the
\* recommendation, the last line of the forecast section and the recommendation's parts
get_advice(advisor_data) ==
    LET d == advisor_data
        headline == IF d.should_blow /\ d.wind_safe THEN "TIME TO SNOW BLOW NOW!"
                    ELSE IF d.should_blow /\ ~d.wind_safe THEN "WAIT - CONDITIONS NOT IDEAL"
                    ELSE "NO NEED TO SNOW BLOW NOW"
        forecast == IF d.forecast_will_exceed
                    THEN IF d.hours_until_threshold # None
                         THEN <<"Will exceed threshold in ~hours", d.hours_until_threshold>>
                         ELSE <<"Will exceed threshold", None>>
                    ELSE <<"Will stay below threshold", None>>
        recommendation ==
            IF d.should_blow /\ d.wind_safe
            THEN {<<"BLOW DIRECTION", d.blow_to>>}
                     \cup (IF d.forecast_will_exceed THEN {<<"You may need to snow blow again soon", None>>} ELSE {})
            ELSE IF d.should_blow /\ ~d.wind_safe
            THEN {<<"Wait for winds to calm", None>>, <<"If you must snowblow now, blow toward", d.blow_to>>}
            ELSE {<<"You need more inches", None>>}
                     \cup (IF ~d.wind_safe THEN {<<"current winds are too strong", None>>} ELSE {})
                     \cup (IF d.forecast_will_exceed
                           THEN {<<"FORECAST ALERT", None>>}
                                    \cup (IF d.hours_until_threshold # None
                                          THEN {<<"Will likely need snowblowing in ~hours", d.hours_until_threshold>>}
                                                   \cup (IF ~d.forecast_wind_safe
                                                         THEN {<<"Peak winds may be too strong later", None>>}
                                                         ELSE {<<"Forecast wind conditions look favorable", d.forecast_blow_to>>})
                                          ELSE {})
                           ELSE {})
    IN [headline |-> headline, forecast |-> forecast, recommendation |-> recommendation]


(***************************************************************************)
(* The bot (src/discord_bot.py)                                            *)
(***************************************************************************)
Alive == exit_cause = "none"

\* the points where the cooperative scheduler can run another handler: between ticks and
\* at the awaits of check_alerts (fetch_user, channel.send)
Suspended == pc \in {"idle", "fetch_user", "send"}

Range(f) == {f[i] : i \in DOMAIN f}

Weather(snowfall, wind_speed, wind_dirs) ==
    [current |-> [wind_speed_10m |-> wind_speed, wind_direction_10m |-> Deg(540)],
     hourly |-> [time |-> <<1, 2, 3, 4>>,
                 snowfall |-> snowfall,
                 wind_speed_10m |-> <<Some(wind_speed), Some(100), None, Some(200)>>,
                 wind_direction_10m |-> wind_dirs],
     now |-> 2]

\* the snapshots the provider answers a tick or a request with
BotWeather ==
    {Weather(s, w, d) :
        s \in {<<Some(100), Some(150), Some(0), Some(50)>>,
               <<None, Some(50), Some(100), Some(150)>>,
               <<Some(0), None, Some(0), Some(10)>>},
        w \in {80, 300},
        d \in {<<Some(540), Some(600), None, Some(40)>>, <<None, None, None, None>>}}

\* what get_advisor_data returns or raises on those snapshots
BotAdvice == {get_advisor_data(w) : w \in BotWeather}

\* check_alerts, lines 121-122: the latch after a notification has been sent
latch_after_send(l, k) == LatchSet(l, k, TRUE)

\* a slip: the latch is armed although the dispatch raised
latch_after_error_armed(l, k) == LatchSet(l, k, TRUE)

\* check_alerts, lines 127-128: the latch after fetch_user or send raised
latch_after_error(l, k) == l

\* check_alerts, lines 131-132: the latch when conditions are no longer met
latch_after_reset(l, k) == LatchSet(l, k, FALSE)

\* a slip: the subscription of an unreachable channel is kept
alerts_after_prune_kept(d, k) == d

\* check_alerts, lines 124-125: del self.alerts[alert_key]; a key that is already gone
\* raises KeyError, which the inner except logs
alerts_after_prune(d, k) == IF k \in KeysOf(d) THEN DictDel(d, k) ELSE d

\* check_alerts, line 126: save_alerts runs only when the del did not raise
store_after_prune(d, k, file, ok) ==
    IF k \in KeysOf(d) THEN save_alerts(DictDel(d, k), file, ok) ELSE file

NoteOutcome(k, what) == outcome' = LatchSet(outcome, k, what)

\* the for loop moves to its next item, or the tick ends
Advance ==
    /\ pc' = IF idx + 1 > Len(snapshot) THEN "done" ELSE "loop"
    /\ idx' = idx + 1
    /\ snapshot' = snapshot

\* get_weather_data raises RequestException inside the tick: sys.exit(1) raises SystemExit,
\* which is no Exception, so the except of line 135 does not catch it and the process ends
check_alerts_fetch_exit ==
    /\ Alive /\ pc = "idle"
    /\ exit_cause' = "check_alerts"
    /\ UNCHANGED <<alerts, store, disk_ok, last_alert_state, reachable, pc, snapshot, idx,
                   should_alert, response, notified, steady, outcome, call>>

\* get_advisor_data raises an Exception inside the tick: logged by line 136, tick over
check_alerts_raise ==
    /\ Alive /\ pc = "idle"
    /\ \E advice_data \in BotAdvice : advice_data.raised # "none"
    /\ UNCHANGED vars

\* lines 94-101: the weather is fetched, should_alert computed, the items listed
check_alerts_start ==
    /\ Alive /\ pc = "idle"
    /\ \E advice_data \in BotAdvice :
        /\ advice_data.raised = "none"
        /\ should_alert' = (advice_data.should_blow /\ advice_data.wind_safe)
    /\ snapshot' = IF alerts = <<>> THEN <<>> ELSE ListKeys(alerts)
    /\ idx' = 1
    /\ pc' = IF alerts = <<>> THEN "done" ELSE "loop"
    /\ steady' = IF ~should_alert' THEN {}
                 ELSE IF should_alert THEN steady
                 ELSE KeysOf(alerts)
    /\ outcome' = EmptyLatch
    /\ notified' = IF should_alert' THEN notified ELSE [k \in Keys |-> 0]
    /\ UNCHANGED <<exit_cause, alerts, store, disk_ok, last_alert_state, reachable,
                   response, call>>

\* lines 101-133, one item of the for loop up to its first await or to its end
check_alerts_item ==
    /\ Alive /\ pc = "loop"
    /\ LET k == snapshot[idx]
           armed == LatchGet(last_alert_state, k)
       IN IF should_alert /\ ~armed
          THEN IF ChannelOf(k) \in reachable
               THEN /\ pc' = "fetch_user"
                    /\ UNCHANGED <<alerts, store, last_alert_state, snapshot, idx,
                                   steady, outcome>>
               ELSE /\ alerts' = alerts_after_prune(alerts, k)
                    /\ store' = store_after_prune(alerts, k, store, disk_ok)
                    /\ steady' = steady \ {k}
                    /\ NoteOutcome(k, "pruned")
                    /\ Advance
                    /\ UNCHANGED last_alert_state
          ELSE IF ~should_alert /\ armed
          THEN /\ last_alert_state' = latch_after_reset(last_alert_state, k)
               /\ NoteOutcome(k, "reset")
               /\ Advance
               /\ UNCHANGED <<alerts, store, steady>>
          ELSE /\ NoteOutcome(k, "skipped")
               /\ Advance
               /\ UNCHANGED <<alerts, store, last_alert_state, steady>>
    /\ UNCHANGED <<exit_cause, disk_ok, reachable, should_alert, response, notified, call>>

\* line 113: await self.fetch_user(user_id) returns the user
fetch_user_ok ==
    /\ Alive /\ pc = "fetch_user"
    /\ pc' = "send"
    /\ UNCHANGED <<exit_cause, alerts, store, disk_ok, last_alert_state, reachable, snapshot,
                   idx, should_alert, response, notified, steady, outcome, call>>

\* line 113 raises: lines 127-128 log it and the loop goes on
fetch_user_error ==
    /\ Alive /\ pc = "fetch_user"
    /\ last_alert_state' = latch_after_error(last_alert_state, snapshot[idx])
    /\ NoteOutcome(snapshot[idx], "failed")
    /\ Advance
    /\ UNCHANGED <<exit_cause, alerts, store, disk_ok, reachable, should_alert, response,
                   notified, steady, call>>

\* lines 118-122: await channel.send(...) returns, the latch is armed
send_ok ==
    /\ Alive /\ pc = "send"
    /\ ChannelOf(snapshot[idx]) \in reachable
    /\ last_alert_state' = latch_after_send(last_alert_state, snapshot[idx])
    /\ notified' = [notified EXCEPT ![snapshot[idx]] = Min(@ + 1, MaxNotified)]
    /\ NoteOutcome(snapshot[idx], "sent")
    /\ Advance
    /\ UNCHANGED <<exit_cause, alerts, store, disk_ok, reachable, should_alert, response,
                   steady, call>>

\* line 118 raises: lines 127-128 log it and the loop goes on
send_error ==
    /\ Alive /\ pc = "send"
    /\ last_alert_state' = latch_after_error(last_alert_state, snapshot[idx])
    /\ NoteOutcome(snapshot[idx], "failed")
    /\ Advance
    /\ UNCHANGED <<exit_cause, alerts, store, disk_ok, reachable, should_alert, response,
                   notified, steady, call>>

\* the coroutine returns; tasks.loop sleeps until the next interval
check_alerts_return ==
    /\ Alive /\ pc = "done"
    /\ pc' = "idle"
    /\ snapshot' = <<>>
    /\ idx' = 1
    /\ outcome' = EmptyLatch
    /\ UNCHANGED <<exit_cause, alerts, store, disk_ok, last_alert_state, reachable,
                   should_alert, response, notified, steady, call>>

\* a slip: the record is written without the test of line 400, so a subscription that
\* exists gets a new subscribed_at
alerts_after_subscribe_overwritten(d, k, t) ==
    IF k \in KeysOf(d)
    THEN [i \in DOMAIN d |-> IF d[i].key = k THEN [key |-> k, subscribed_at |-> t] ELSE d[i]]
    ELSE DictAdd(d, k, t)

\* alert_subscribe, lines 400-413: bot.alerts after the request
alerts_after_subscribe(d, k, t) == IF k \in KeysOf(d) THEN d ELSE DictAdd(d, k, t)

\* /alert-subscribe of user u in channel c at time t, lines 398-423; save_alerts runs only
\* when the subscription is new
subscribe_request(c, u, t) ==
    LET alert_key == AlertKey(c, u)
    IN /\ Alive /\ Suspended
       /\ alerts' = alerts_after_subscribe(alerts, alert_key, t)
       /\ store' = IF alert_key \in KeysOf(alerts)
                   THEN store
                   ELSE save_alerts(alerts', store, disk_ok)
       /\ UNCHANGED <<exit_cause, disk_ok, last_alert_state, reachable, pc, snapshot, idx,
                      should_alert, response, notified, steady, outcome, call>>

alert_subscribe == \E c \in Channels, u \in Users, t \in Times : subscribe_request(c, u, t)

\* /alert-unsubscribe of user u in channel c, lines 434-459
unsubscribe_request(c, u) ==
    LET alert_key == AlertKey(c, u)
    IN /\ Alive /\ Suspended
       /\ IF alert_key \in KeysOf(alerts)
          THEN /\ alerts' = DictDel(alerts, alert_key)
               /\ store' = save_alerts(alerts', store, disk_ok)
               /\ last_alert_state' = LatchDel(last_alert_state, alert_key)
               /\ steady' = steady \ {alert_key}
          ELSE UNCHANGED <<alerts, store, last_alert_state, steady>>
       /\ UNCHANGED <<exit_cause, disk_ok, reachable, pc, snapshot, idx, should_alert,
                      response, notified, outcome, call>>

alert_unsubscribe == \E c \in Channels, u \in Users : unsubscribe_request(c, u)

\* /snowblower, lines 340-361: the advice, or the error embed when an Exception is raised
snowblower ==
    /\ Alive /\ Suspended
    /\ \E advice_data \in BotAdvice :
        response' = IF advice_data.raised = "none"
                    THEN "advice"
                    ELSE "Error"
    /\ UNCHANGED <<exit_cause, alerts, store, disk_ok, last_alert_state, reachable, pc,
                   snapshot, idx, should_alert, notified, steady, outcome, call>>

\* /snowblower when get_weather_data raises RequestException: sys.exit(1) raises SystemExit,
\* which the except of line 353 does not catch; no follow-up is sent and the process ends
snowblower_fetch_exit ==
    /\ Alive /\ Suspended
    /\ exit_cause' = "snowblower"
    /\ response' = "thinking"
    /\ UNCHANGED <<alerts, store, disk_ok, last_alert_state, reachable, pc, snapshot, idx,
                   should_alert, notified, steady, outcome, call>>

\* environment: a channel is deleted, get_channel returns None from now on
channel_deleted ==
    /\ Alive /\ Suspended
    /\ \E c \in reachable : reachable' = reachable \ {c}
    /\ UNCHANGED <<exit_cause, alerts, store, disk_ok, last_alert_state, pc, snapshot, idx,
                   should_alert, response, notified, steady, outcome, call>>

NoCall == [fn |-> "none"]

\* SnowblowerBot.__init__, lines 68-72, with alerts.json holding one of files. The file is
\* readable and writable, or it is neither for the whole run (and then holds stale
\* subscriptions of every key)
Start(files) ==
    /\ exit_cause = "none"
    /\ store \in files
    /\ disk_ok \in BOOLEAN
    /\ ~disk_ok => KeysOf(store) = Keys
    /\ alerts = load_alerts(store, disk_ok)
    /\ last_alert_state = EmptyLatch
    /\ reachable = Channels
    /\ pc = "idle"
    /\ snapshot = <<>>
    /\ idx = 1
    /\ should_alert = FALSE
    /\ response = "none"
    /\ notified = [k \in Keys |-> 0]
    /\ steady = {}
    /\ outcome = EmptyLatch
    /\ call = NoCall

Init == Start(AllAlerts)

Next ==
    \/ check_alerts_fetch_exit
    \/ check_alerts_raise
    \/ check_alerts_start
    \/ check_alerts_item
    \/ fetch_user_ok
    \/ fetch_user_error
    \/ send_ok
    \/ send_error
    \/ check_alerts_return
    \/ alert_subscribe
    \/ alert_unsubscribe
    \/ snowblower
    \/ snowblower_fetch_exit
    \/ channel_deleted

Spec == Init /\ [][Next]_vars

\* the files an earlier run of the bot has left: every subscribed_at is 0, before the times
\* of this run
EarlierAlerts ==
    {[i \in DOMAIN d |-> [d[i] EXCEPT !.subscribed_at = 0]] : d \in AllAlerts}

\* the bot restarted on the file of an earlier run
RestartInit == Start(EarlierAlerts)

RestartSpec == RestartInit /\ [][Next]_vars

(***************************************************************************)
(* Calls of the pure functions on bounded inputs                           *)
(***************************************************************************)
\* bearings of up to MaxTurn turns either way, in half degrees
Bearings == (-720 * MaxTurn) .. (720 * MaxTurn)

\* hourly snowfall samples: missing, none, half the threshold, the threshold
SnowSamples == {None, Some(0), Some(100), Some(200)}

\* windows of up to MaxLen samples
Windows == UNION {[1..n -> SnowSamples] : n \in 0..MaxLen}

\* provider snapshots of four hours, read before the first hour, in the second and in the
\* last one, with a last hour of 20 or of 30 mph wind
AdvisorWeather ==
    {[Weather(s, w, <<Some(540), Some(600), None, Some(40)>>)
        EXCEPT !.now = n, !.hourly.wind_speed_10m[4] = Some(g)] :
        s \in [1..4 -> SnowSamples], w \in {80, 300}, n \in {0, 2, 4}, g \in {200, 300}}

\* what get_advisor_data hands to the renderers on those snapshots
AdvisorData == {get_advisor_data(w) : w \in AdvisorWeather}

call_get_direction_from_degrees ==
    /\ \E d \in Bearings :
        call' = [fn |-> "get_direction_from_degrees", arg |-> d,
                 ret |-> get_direction_from_degrees(Deg(d))]
    /\ UNCHANGED botvars

call_should_snowblow ==
    /\ \E hourly_snowfall \in Windows :
        call' = [fn |-> "should_snowblow", arg |-> hourly_snowfall,
                 ret |-> should_snowblow(ACCUMULATION_THRESHOLD, hourly_snowfall)]
    /\ UNCHANGED botvars

call_format_snowblower_advice ==
    /\ \E advisor_data \in AdvisorData :
        /\ advisor_data.raised = "none"
        /\ call' = [fn |-> "format_snowblower_advice", arg |-> advisor_data,
                    ret |-> format_snowblower_advice(advisor_data)]
    /\ UNCHANGED botvars

call_get_advice ==
    /\ \E advisor_data \in AdvisorData :
        /\ advisor_data.raised = "none"
        /\ call' = [fn |-> "get_advice", arg |-> advisor_data,
                    ret |-> get_advice(advisor_data)]
    /\ UNCHANGED botvars

\* bearings at, just above and just below the sector boundaries and the sector centres
WindBearings == {d \in Bearings : d % 45 \in {0, 1, 44}}

call_get_recommended_blow_direction ==
    /\ \E d \in WindBearings :
        call' = [fn |-> "get_recommended_blow_direction", arg |-> d,
                 ret |-> get_recommended_blow_direction(Deg(d))]
    /\ UNCHANGED botvars

\* configured max_wind_speed_mph: below the 10 and 15 mph bands, between them, the
\* default, and above the 35 mph band
MaxSafes == {50, 120, MAX_WIND_SPEED, 400}

\* wind speeds at and next to every band edge
WindSpeeds == {0, 50, 51, 100, 101, 120, 121, 150, 151, 250, 251, 300, 350, 351, 400, 401}

call_is_wind_safe_for_snowblowing ==
    /\ \E max_wind_speed \in MaxSafes, wind_speed \in WindSpeeds :
        call' = [fn |-> "is_wind_safe_for_snowblowing",
                 arg |-> [max_wind_speed |-> max_wind_speed, wind_speed |-> wind_speed],
                 ret |-> is_wind_safe_for_snowblowing(max_wind_speed, wind_speed)]
    /\ UNCHANGED botvars

\* hourly data of n hours with timestamps 1..n
Hourly(snowfall, wind_speed, wind_dirs) ==
    [time |-> [i \in DOMAIN snowfall |-> i],
     snowfall |-> snowfall,
     wind_speed_10m |-> wind_speed,
     wind_direction_10m |-> wind_dirs]

\* three hours: every combination of samples, bearings partly missing, all missing, all there
ShortHourly ==
    {Hourly(s, <<Some(80), None, Some(300)>>, d) :
        s \in [1..3 -> SnowSamples],
        d \in {<<Some(540), None, Some(40)>>, <<None, None, None>>, <<Some(0), Some(719), Some(1)>>}}

\* MaxHours hours, longer than the forecast window: no snow but for one hour at the threshold
LongHourly ==
    {Hourly([i \in 1..MaxHours |-> IF i = p THEN Some(ACCUMULATION_THRESHOLD) ELSE Some(0)],
            [i \in 1..MaxHours |-> Some(100)],
            [i \in 1..MaxHours |-> Some(540)]) : p \in 1..MaxHours}

\* configured accumulation_threshold_inches: 1.0 and the default
Thresholds == {100, ACCUMULATION_THRESHOLD}

\* the calls of get_forecast_analysis on those data, before the first hour or in the second
ForecastCalls ==
    {[fn |-> "get_forecast_analysis",
      arg |-> [accumulation_threshold |-> accumulation_threshold,
               hourly |-> hourly, now |-> now],
      ret |-> get_forecast_analysis(accumulation_threshold, hourly, now)] :
        accumulation_threshold \in Thresholds,
        hourly \in ShortHourly \cup LongHourly \cup {Hourly(<<>>, <<>>, <<>>)},
        now \in {0, 2}}

call_get_forecast_analysis ==
    /\ \E c \in ForecastCalls : call' = c
    /\ UNCHANGED botvars

\* hourly data of n hours whose sample of hour i is i hundredths, so that a window shows
\* the hours it was cut from: up to two hours, and around the length of the past window
TaggedHourly ==
    {Hourly([i \in 1..n |-> Some(i)], [i \in 1..n |-> Some(100)], [i \in 1..n |-> Some(540)]) :
        n \in (0..2) \cup ((MaxHours - 2)..MaxHours)}

\* get_advisor_data and get_advice up to the window they hand to should_snowblow
call_past_24_snow ==
    /\ \E hourly \in TaggedHourly :
        \E now \in 0..Len(hourly.time) :
            call' = [fn |-> "past_24_snow", arg |-> [hourly |-> hourly, now |-> now],
                     ret |-> PastWindow(hourly, now)]
    /\ UNCHANGED botvars

\* no bot is running: only the functions are called
AdvisorInit ==
    /\ Init
    /\ store = <<>>
    /\ disk_ok

AdvisorNext ==
    \/ call_get_direction_from_degrees
    \/ call_should_snowblow
    \/ call_format_snowblower_advice
    \/ call_get_advice
    \/ call_get_recommended_blow_direction
    \/ call_is_wind_safe_for_snowblowing
    \/ call_get_forecast_analysis
    \/ call_past_24_snow

AdvisorSpec == AdvisorInit /\ [][AdvisorNext]_vars


\* the scheduling of the bot: tasks.loop starts a tick every 15 minutes and every await of a
\* tick returns; that a fetch, a fetch_user and a send succeed again and again when they are
\* tried again and again is the assumption of claim C7
TickProgress ==
    \/ check_alerts_start
    \/ check_alerts_item
    \/ fetch_user_ok
    \/ fetch_user_error
    \/ send_ok
    \/ send_error
    \/ check_alerts_return

FairSpec ==
    /\ Spec
    /\ WF_vars(TickProgress)
    /\ \A k \in Keys : SF_vars(fetch_user_ok /\ snapshot[idx] = k)
    /\ \A k \in Keys : SF_vars(send_ok /\ snapshot[idx] = k)

(***************************************************************************)
(* Claims about the bot                                                    *)
(***************************************************************************)
InTick == pc \in {"loop", "fetch_user", "send"}

\* a step of the running tick itself
TickStep == InTick /\ (pc' # pc \/ idx' # idx)

Armed(k) == LatchGet(last_alert_state, k)

\* the four rows of the latch table, for the item the for loop is at: a notification is
\* sent only to an unarmed key under should_alert and arms it; an armed key under should_alert
\* is left alone; an armed key without should_alert is disarmed; else nothing changes
LatchTable ==
    [][\A k \in Keys :
          (TickStep /\ snapshot[idx] = k /\ idx' = idx + 1)
              => /\ notified'[k] # notified[k] =>
                      (should_alert /\ ~Armed(k) /\ LatchGet(last_alert_state', k))
                 /\ (should_alert /\ Armed(k)) => UNCHANGED <<last_alert_state, notified>>
                 /\ (~should_alert /\ Armed(k)) =>
                      (~LatchGet(last_alert_state', k) /\ notified' = notified)
                 /\ (~should_alert /\ ~Armed(k)) =>
                      (~LatchGet(last_alert_state', k) /\ notified' = notified)]_vars

\* C1: a subscription that stays subscribed, with a reachable channel and no failing send,
\* gets exactly one notification in every run of ticks with should_alert: when a tick with
\* should_alert has finished, each key that has been subscribed since the run began has been
\* sent one notification in this run
C1_OncePerEpisode ==
    (pc = "done" /\ should_alert) =>
        \A k \in steady :
            (ChannelOf(k) \in reachable /\ k \in DOMAIN outcome /\ outcome[k] # "failed")
                => notified[k] = 1

\* C2: a fetch failure inside a tick ends that tick only, the process keeps running
C2_FetchFailureKeepsTicking == exit_cause # "check_alerts"

\* C3: a fetch failure inside /snowblower is answered with the error embed and never ends
\* the process
C3_FetchFailureIsAnswered == exit_cause # "snowblower" /\ response # "thinking"

\* the item the for loop is at is a subscription k whose channel no longer resolves, in a
\* tick with should_alert
UnreachableItem(k) ==
    /\ pc = "loop" /\ should_alert /\ snapshot[idx] = k
    /\ k \in KeysOf(alerts) /\ ChannelOf(k) \notin reachable

\* what claim C4 says happens to such an item: removed from memory and (when the file can
\* be written) from the store, no dispatch, latch not armed, and the loop goes on
Pruned(k) ==
    /\ k \notin KeysOf(alerts')
    /\ disk_ok => k \notin KeysOf(store')
    /\ notified' = notified
    /\ ~LatchGet(last_alert_state', k)
    /\ idx' = idx + 1 /\ pc' \in {"loop", "done"}

\* a tick ends only when it has evaluated every item of its snapshot
TickEvaluatesAll == (InTick /\ pc' = "done") => DOMAIN outcome' = Range(snapshot)

\* C4 as claimed: in a tick with should_alert every subscription whose channel cannot be
\* resolved is pruned, and the other subscriptions of the tick are still evaluated
C4_UnreachableIsPruned ==
    [][(\A k \in Keys : (TickStep /\ UnreachableItem(k)) => Pruned(k)) /\ TickEvaluatesAll]_vars

\* C4 amended: the same for every such subscription whose latch is not armed
C4_UnarmedUnreachableIsPruned ==
    [][(\A k \in Keys : (TickStep /\ UnreachableItem(k) /\ ~Armed(k)) => Pruned(k))
          /\ TickEvaluatesAll]_vars

\* a tick has pruned one subscription and afterwards notified another one
C4_Witness ==
    \E i, j \in DOMAIN snapshot :
        /\ i < j
        /\ snapshot[i] \in DOMAIN outcome /\ outcome[snapshot[i]] = "pruned"
        /\ snapshot[i] \notin KeysOf(alerts) /\ snapshot[i] \notin KeysOf(store)
        /\ snapshot[j] \in DOMAIN outcome /\ outcome[snapshot[j]] = "sent"

\* C5: between the start and the end of one pass of check_alerts no step other than the
\* pass itself changes the subscription set or the latch map
C5_HandlersDeferred ==
    [][(InTick /\ pc' = pc /\ idx' = idx) => UNCHANGED <<alerts, last_alert_state>>]_vars

\* C6: once the operations have run, no armed latch is left without its subscription
C6_NoOrphanArmedLatch ==
    pc = "idle" =>
        \A k \in DOMAIN last_alert_state : last_alert_state[k] => k \in KeysOf(alerts)

\* the step in which the dispatch to k raises
DispatchRaises(k) ==
    /\ TickStep /\ pc \in {"fetch_user", "send"} /\ snapshot[idx] = k
    /\ k \in DOMAIN outcome' /\ outcome'[k] = "failed"

\* the states from which the subscriber of k is still owed the notification
Owed(k) ==
    /\ Alive /\ should_alert
    /\ k \in KeysOf(alerts) /\ ChannelOf(k) \in reachable
    /\ notified[k] = 0

\* C7: a dispatch that raises leaves the latch of its subscription unarmed and the tick goes
\* on with the other subscriptions; and under fair ticks and sends that succeed in the end the
\* subscriber is notified while the episode lasts
C7_FailedDispatchIsRetried ==
    /\ [][\A k \in Keys :
            DispatchRaises(k) =>
                /\ ~LatchGet(last_alert_state', k)
                /\ notified' = notified
                /\ idx' = idx + 1 /\ pc' \in {"loop", "done"}]_vars
    /\ [][TickEvaluatesAll]_vars
    /\ \A k \in Keys :
        (k \in DOMAIN outcome /\ outcome[k] = "failed") ~> ~Owed(k)

\* a tick in which the dispatch to one subscription raised, its latch is not armed, and a
\* later subscription of the same tick has been notified
C7_Witness ==
    \E i, j \in DOMAIN snapshot :
        /\ i < j
        /\ snapshot[i] \in DOMAIN outcome /\ outcome[snapshot[i]] = "failed"
        /\ ~Armed(snapshot[i]) /\ snapshot[i] \in KeysOf(alerts)
        /\ snapshot[j] \in DOMAIN outcome /\ outcome[snapshot[j]] = "sent"

(***************************************************************************)
(* Claims about the pure functions                                         *)
(***************************************************************************)
\* the state the claim assigns to a combination, in its priority order
ClaimedState(should_blow, wind_safe, forecast_will_exceed) ==
    IF should_blow /\ wind_safe THEN "Blow-now"
    ELSE IF should_blow /\ ~wind_safe THEN "Wait"
    ELSE IF ~should_blow /\ forecast_will_exceed THEN "Forecast-alert"
    ELSE "All-clear"

\* the states an embed shows: one per title
DiscordStates(embed) ==
    {st \in {"Blow-now", "Wait", "Forecast-alert", "All-clear"} :
        \/ st = "Blow-now" /\ embed.title = "TIME TO SNOW BLOW NOW!"
        \/ st = "Wait" /\ embed.title = "WAIT - CONDITIONS NOT IDEAL"
        \/ st = "Forecast-alert" /\ embed.title = "FORECAST ALERT"
        \/ st = "All-clear" /\ embed.title = "NO NEED TO SNOW BLOW NOW"}

\* the states the printed advice shows: the headline, and under the third headline
\* whether the FORECAST ALERT paragraph is printed
CliStates(printed) ==
    LET alert == <<"FORECAST ALERT", None>> \in printed.recommendation
    IN {st \in {"Blow-now", "Wait", "Forecast-alert", "All-clear"} :
           \/ st = "Blow-now" /\ printed.headline = "TIME TO SNOW BLOW NOW!"
           \/ st = "Wait" /\ printed.headline = "WAIT - CONDITIONS NOT IDEAL"
           \/ st = "Forecast-alert" /\ printed.headline = "NO NEED TO SNOW BLOW NOW" /\ alert
           \/ st = "All-clear" /\ printed.headline = "NO NEED TO SNOW BLOW NOW" /\ ~alert}

\* C8: on every advisory each renderer shows exactly one of the four states, the one the
\* priority order Blow-now, Wait, Forecast-alert, All-clear assigns to (should_blow,
\* wind_safe, forecast_will_exceed); so both renderers show the same state
C8_RenderersAgree ==
    LET d == call.arg
    IN /\ call.fn = "format_snowblower_advice" =>
            DiscordStates(call.ret)
                = {ClaimedState(d.should_blow, d.wind_safe, d.forecast_will_exceed)}
       /\ call.fn = "get_advice" =>
            CliStates(call.ret)
                = {ClaimedState(d.should_blow, d.wind_safe, d.forecast_will_exceed)}

\* the embed of an advisory without enough snow, with unsafe wind and a forecast that
\* exceeds the threshold has been built: the third test of the priority order decides
C8_Witness ==
    /\ call.fn = "format_snowblower_advice"
    /\ ~call.arg.should_blow /\ ~call.arg.wind_safe /\ call.arg.forecast_will_exceed
    /\ call.ret.title = "FORECAST ALERT"

\* the sum of a window with its missing samples counted as zero
RECURSIVE NonMissingTotal(_)
NonMissingTotal(window) ==
    IF window = <<>> THEN 0
    ELSE (IF Head(window) = None THEN 0 ELSE Val(Head(window))) + NonMissingTotal(Tail(window))

\* C9: should_snowblow returns the sum of the non-missing samples as total, 0 for an empty
\* or all-missing window, and should_blow exactly when the total is >= the threshold
C9_TotalAndTrigger ==
    call.fn = "should_snowblow" =>
        /\ call.ret.total_accumulation = NonMissingTotal(call.arg)
        /\ (\A i \in DOMAIN call.arg : call.arg[i] = None) => call.ret.total_accumulation = 0
        /\ call.ret.should_blow <=> (call.ret.total_accumulation >= ACCUMULATION_THRESHOLD)

\* a window with a missing sample whose total is exactly the threshold has triggered
C9_Witness ==
    /\ call.fn = "should_snowblow"
    /\ \E i \in DOMAIN call.arg : call.arg[i] = None
    /\ call.ret.total_accumulation = ACCUMULATION_THRESHOLD
    /\ call.ret.should_blow

\* C10: the label of every bearing d, negative ones and those of 360 or more included, is
\* the label of d + 360, and the bearings from -22.5 up to 22.5 degrees are labelled N
C10_PeriodicLabels ==
    call.fn = "get_direction_from_degrees" =>
        /\ call.ret = get_direction_from_degrees(Deg(call.arg + 720))
        /\ (-45 <= call.arg /\ call.arg < 45) => call.ret = "N"

\* the sector opposite to a sector
Opposite(label) ==
    CASE label = "N" -> "S" [] label = "NE" -> "SW" [] label = "E" -> "W" [] label = "SE" -> "NW"
      [] label = "S" -> "N" [] label = "SW" -> "NE" [] label = "W" -> "E" [] label = "NW" -> "SE"

\* C11: for every wind bearing d the blow-to label is the label of d + 180, is never the
\* wind-from label (the label of d), and the two labels are opposite sectors
C11_BlowToIsOpposite ==
    call.fn = "get_recommended_blow_direction" =>
        /\ call.ret.blow_to = get_direction_from_degrees(Deg(call.arg + 360))
        /\ call.ret.wind_from = get_direction_from_degrees(Deg(call.arg))
        /\ call.ret.blow_to # call.ret.wind_from
        /\ call.ret.blow_to = Opposite(call.ret.wind_from)

\* C12: for every configured max_safe, every wind speed above max_safe is unsafe, every wind
\* speed above 35 mph is unsafe with the dangerous label, every other one is safe
C12_BandsFollowMaxSafe ==
    call.fn = "is_wind_safe_for_snowblowing" =>
        /\ call.arg.wind_speed > call.arg.max_wind_speed => ~call.ret.safe
        /\ call.arg.wind_speed > 350 => (~call.ret.safe /\ call.ret.condition = "Dangerous")
        /\ call.arg.wind_speed <= call.arg.max_wind_speed => call.ret.safe

\* C13: for a fixed max_safe, a wind speed at or above an unsafe wind speed is unsafe
C13_WindMonotone ==
    call.fn = "is_wind_safe_for_snowblowing" =>
        \A w1 \in WindSpeeds :
            (w1 <= call.arg.wind_speed
                /\ ~is_wind_safe_for_snowblowing(call.arg.max_wind_speed, w1).safe)
                    => ~call.ret.safe

\* with max_safe above 35 mph, a wind speed at max_safe has been classified and a lower
\* wind speed is unsafe: the case a band tested out of order would get wrong
C13_Witness ==
    /\ call.fn = "is_wind_safe_for_snowblowing"
    /\ ~call.ret.safe
    /\ \E w1 \in WindSpeeds :
        /\ w1 < call.arg.wind_speed
        /\ ~is_wind_safe_for_snowblowing(call.arg.max_wind_speed, w1).safe

\* the forecast slice of a call of get_forecast_analysis: up to 24 samples from the current one
ForecastSlice(which) ==
    LET current_index == ScanBreak(call.arg.hourly.time, call.arg.now, 1, 0)
    IN Slice(which, current_index, current_index + FORECAST_HOURS)

\* the positions (1-based) of a slice at which the running sum of its non-missing samples
\* has reached the threshold
ReachedAt(slice, threshold) ==
    {i \in 1..Len(slice) : NonMissingTotal(SubSeq(slice, 1, i)) >= threshold}

Returned == call.fn = "get_forecast_analysis" /\ call.ret.raised = "none"

\* C14: hours_until_threshold is the first index of the forecast slice at which the running
\* sum of the non-missing snowfall is >= the threshold, None when there is no such index,
\* and when present it is at least 0 and less than 24
C14_FirstIndexReached ==
    Returned =>
        LET reached == ReachedAt(ForecastSlice(call.arg.hourly.snowfall),
                                 call.arg.accumulation_threshold)
            hours == call.ret.hours_until_threshold
        IN /\ reached = {} => hours = None
           /\ reached # {} =>
                /\ hours # None
                /\ Val(hours) + 1 \in reached
                /\ \A i \in reached : Val(hours) + 1 <= i
           /\ hours # None => (0 <= Val(hours) /\ Val(hours) < FORECAST_HOURS)

\* the threshold is reached at the last sample of a full window of 24, with later hours in
\* the data
C14_Witness ==
    /\ Returned
    /\ Len(call.arg.hourly.snowfall) > FORECAST_HOURS
    /\ call.ret.hours_until_threshold = Some(FORECAST_HOURS - 1)

\* C17: get_forecast_analysis never fails on the bearings: avg_wind_direction is the mean of
\* the non-missing bearings of the forecast slice, and 0 when there is none (the slice is
\* empty or all its bearings are missing)
C17_MeanBearingOrZero ==
    call.fn = "get_forecast_analysis" =>
        /\ call.ret.raised = "none"
        /\ LET bearings == NotNone(ForecastSlice(call.arg.hourly.wind_direction_10m))
               avg == call.ret.avg_wind_direction
           IN IF bearings = <<>> THEN avg[1] = 0
              ELSE avg[1] * Len(bearings) = NonMissingTotal(bearings) * avg[2]

\* C18: with snowfall samples that are missing or >= 0 and a threshold > 0,
\* will_exceed_threshold is true exactly when hours_until_threshold is not None
C18_WillExceedIffHours ==
    Returned => (call.ret.will_exceed_threshold <=> call.ret.hours_until_threshold # None)

\* a forecast whose accumulation is exactly the threshold, with a missing sample in the
\* slice, has been analysed: it will exceed and the hour is known
C18_Witness ==
    /\ Returned
    /\ call.ret.forecast_accumulation = call.arg.accumulation_threshold
    /\ \E i \in DOMAIN call.arg.hourly.snowfall : call.arg.hourly.snowfall[i] = None
    /\ call.ret.will_exceed_threshold
    /\ call.ret.hours_until_threshold # None

\* the advisory is in the Forecast-alert state
ForecastAlert(d) == ~d.should_blow /\ d.forecast_will_exceed

ZeroHoursMeansBlow ==
    call.fn \in {"format_snowblower_advice", "get_advice"} =>
        (call.arg.hours_until_threshold = Some(0) => call.arg.should_blow)

\* the samples at the indices (0-based) max(0, current_index - 23) .. current_index
TrailingWindow(hourly_snowfall, current_index) ==
    LET lo == Max(0, current_index - (PAST_HOURS - 1))
        hi == Min(current_index, Len(hourly_snowfall) - 1)
    IN [j \in 1..(hi - lo + 1) |-> hourly_snowfall[lo + j]]

\* C16: the window handed to should_snowblow has at most 24 samples and is exactly the
\* samples at the indices max(0, currentIndex - 23) .. currentIndex
C16_Trailing24 ==
    call.fn = "past_24_snow" =>
        /\ Len(call.ret) <= PAST_HOURS
        /\ call.ret = TrailingWindow(call.arg.hourly.snowfall,
                                     ScanAll(call.arg.hourly.time, call.arg.now, 1, 0))

\* C19: a subscribe of a key that is subscribed leaves its record (subscribed_at included),
\* the file and every latch as they are; an unsubscribe of a key that is not subscribed
\* changes none of them; and after a subscribe of an absent key, deleting the key as the
\* unsubscribe does gives the previous subscription set
C19_HandlersIdempotent ==
    [][\A c \in Channels, u \in Users :
          LET k == AlertKey(c, u)
          IN /\ \A t \in Times :
                  (k \in KeysOf(alerts) /\ subscribe_request(c, u, t))
                      => UNCHANGED <<alerts, store, last_alert_state>>
             /\ (k \notin KeysOf(alerts) /\ unsubscribe_request(c, u))
                      => UNCHANGED <<alerts, store, last_alert_state>>
             /\ \A t \in Times :
                  (k \notin KeysOf(alerts) /\ subscribe_request(c, u, t))
                      => (k \in KeysOf(alerts') /\ DictDel(alerts', k) = alerts)]_vars

\* between ticks, a subscription of the earlier run whose latch is armed stands next to one
\* made in this run: a subscribe of an absent key has acted, and a new subscribe of the
\* older key would come with another time than the one stored
C19_Witness ==
    /\ pc = "idle" /\ Alive
    /\ \E i, j \in DOMAIN alerts :
        /\ alerts[i].subscribed_at = 0 /\ Armed(alerts[i].key)
        /\ alerts[j].subscribed_at \in Times

====
